---- MODULE Spec2Model ----
(***************************************************************************)
(* Scan/photo correlation of the ZKTeco ADMS push server (src/main.py).    *)
(*                                                                         *)
(* State: the in-memory table pending_notifications (user_id -> entry),    *)
(* the photo store queried by find_latest_photo, the attendance rows, the  *)
(* background tasks queued on BackgroundTasks (timeout workers, photo      *)
(* triggers, immediate sends), the inline photo trigger of /iclock/fdata   *)
(* the response of every upload and, as history, every call of             *)
(* telegram_notifier.send_attendance_notification.                         *)
(*                                                                         *)
(* Handlers that run on the event loop without an await                    *)
(* (save_attendance_records) and tasks that run in the thread pool         *)
(* interleave at the points where the lock is released or an await         *)
(* suspends; each such stretch is one action.                              *)
(***************************************************************************)
EXTENDS Integers, Sequences, FiniteSets, TLC

\* ---- bounds of the model ----
\* uploads (attendance lines and photos) accepted in one run
MaxUploads == 3
\* calls of the expiry sweep in one run
MaxSweeps == 2

\* ---- inputs ----
\* attendance lines a device uploads: user_id, timestamp (seconds of the
\* day), in_out, verify_mode
ScanInputs ==
    { [user |-> "07", device |-> "SN1", time |-> 0,   in_out |-> 0, verify_mode |-> 1],
      [user |-> "07", device |-> "SN1", time |-> 300, in_out |-> 1, verify_mode |-> 15],
      [user |-> "08", device |-> "SN1", time |-> 0,   in_out |-> 1, verify_mode |-> 1] }

\* file names of uploaded photos, YYYYMMDDHHMMSS-{user_id}.jpg: the user_id
\* and the timestamp (seconds of the day) they carry, and the SN of the
\* device that uploads them; valid tells whether the name starts with 14
\* digits, a dash, digits and ".jpg" (the last input is a name such as
\* "IMG-07.jpg")
PhotoInputs ==
    { [user |-> "07", device |-> "SN1", time |-> 100, valid |-> TRUE],
      [user |-> "07", device |-> "SN1", time |-> 150, valid |-> TRUE],
      [user |-> "08", device |-> "SN2", time |-> 200, valid |-> TRUE],
      [user |-> "07", device |-> "SN1", time |-> 0,   valid |-> FALSE] }

\* find_latest_photo: "Return photo if within 3 minutes (180 seconds)"
ProximityWindow == 180

\* cleanup_expired_pending_notifications: timedelta(minutes=5), in seconds
MaxAge == 300

\* readings of datetime.now() (seconds) between which the sweep is called
ClockTimes == {0, 100, 300, 400, 401, 700}

VARIABLES
    pending,     \* pending_notifications: dict user_id -> entry
    photos,      \* photo uploads in arrival order (index = photo id)
    scans,       \* new attendance records in processing order (index = scan id)
    req,         \* the scan upload being processed by save_attendance_records
    committed,   \* scan ids whose row is committed and whose response is sent
    spc,         \* per scan: the queued send_notification_with_photo task
    wpc,         \* per scan: the queued handle_notification_timeout_sync task
    wclaimed,    \* per scan: scan id of the entry its timeout worker removed
    tpc,         \* per photo: position of its photo trigger
    tdata,       \* per photo: pending_data held by its trigger
    sent,        \* calls of send_attendance_notification so far
    replaced,    \* scan ids whose entry was overwritten by a later Put
    now,         \* datetime.now()
    swept,       \* return values of cleanup_expired_pending_notifications so far
    resp,        \* per upload: the response its handler returned
    sweep,       \* the running cleanup_expired_pending_notifications of main.py
    lock,        \* pending_notifications_lock: the task inside a "with" block on it
    bus          \* event_bus: EventBus._handlers and the calls of the last publish

vars == <<pending, photos, scans, req, committed, spc, wpc, wclaimed, tpc, tdata, sent, replaced,
          now, swept, resp, sweep, lock, bus>>

ScanIds == 1..MaxUploads
PhotoIds == 1..MaxUploads

NoPhoto == 0
NoScan == 0
NoResponse == ""
KeyError == -1

\* pending_notifications_lock is free
NoHolder == [kind |-> "none", id |-> 0]

\* the task (kind and scan or photo id) inside a "with" block on the lock
Holder(kind, id) == [kind |-> kind, id |-> id]

\* a "with" block whose lock is still held after its last statement
WithLock_NoRelease(h) ==
    /\ lock \in {NoHolder, h}
    /\ lock' = h

\* "with pending_notifications_lock:" around the statements of the step:
\* entered when the lock is free (or was acquired by this task in an
\* earlier step), released where the block ends
WithLock(h) ==
    /\ lock \in {NoHolder, h}
    /\ lock' = NoHolder

\* no event was published yet
NoEvent == ""

\* EventBus.__init__: no handler lists; nothing was published
EmptyBus == [handlers |-> <<>>, published |-> NoEvent, calls |-> <<>>, escaped |-> FALSE]

\* no sweep is running; keys is expired_keys, at is current_time
IdleSweep == [pc |-> "idle", keys |-> {}, at |-> 0]

Abs(x) == IF x < 0 THEN -x ELSE x

\* the value stored under pending_notifications[user_id]; sid is the id of
\* the scan it was built from
Entry(sid, rec) ==
    [sid |-> sid, attendance_time |-> rec.time, device_serial |-> rec.device,
     in_out |-> rec.in_out, verify_mode |-> rec.verify_mode, created_at |-> now]

NoData == [sid |-> NoScan, attendance_time |-> 0, device_serial |-> "",
           in_out |-> 0, verify_mode |-> 0, created_at |-> 0]

\* no attendance upload is being processed; first is the id of the first
\* new record of the upload, err tells that the photo lookup of the current
\* record raised
IdleReq == [pc |-> "idle", sid |-> NoScan, first |-> NoScan, err |-> FALSE]

\* the status a handler answers with: "OK" when it returns, 500 from
\* general_exception_handler when an exception leaves it
Response(escaped) == IF escaped THEN "Internal Server Error" ELSE "OK"

\* "del" that empties the table
Del_Clear(tbl, u) == [x \in {} |-> tbl[x]]

\* del pending_notifications[user_id]
Del(tbl, u) == [x \in (DOMAIN tbl) \ {u} |-> tbl[x]]

\* stored photos that glob "*-{user_id}.jpg" finds in the device's directory
\* and that lie within the window of the attendance time
PhotoMatches(d, u, t) ==
    {j \in 1..Len(photos) :
        /\ photos[j].saved
        /\ photos[j].valid
        /\ photos[j].device = d
        /\ photos[j].user = u
        /\ Abs(t - photos[j].time) <= ProximityWindow}

\* find_latest_photo: photos sorted most recent first, the first one within
\* the window is returned, None when there is none
find_latest_photo(d, u, t) ==
    LET m == PhotoMatches(d, u, t) IN
    IF m = {} THEN NoPhoto
    ELSE CHOOSE j \in m : \A k \in m :
            \/ photos[k].time < photos[j].time
            \/ (photos[k].time = photos[j].time /\ k <= j)

\* one call of telegram_notifier.send_attendance_notification
Notification(sid, u, d, t, io, vm, photo, by) ==
    [sid |-> sid, user_id |-> u, device_serial |-> d, timestamp |-> t,
     in_out |-> io, verify_mode |-> vm, photo_path |-> photo, by |-> by]

\* save_attendance_records is a coroutine without an await: from its
\* duplicate check to db.commit() no other coroutine of the event loop runs
\* (the tasks of the thread pool do)
EventLoopFree == req.pc = "idle"

Init ==
    /\ pending = <<>>
    /\ photos = <<>>
    /\ scans = <<>>
    /\ req = IdleReq
    /\ committed = {}
    /\ spc = [i \in ScanIds |-> "none"]
    /\ wpc = [i \in ScanIds |-> "none"]
    /\ wclaimed = [i \in ScanIds |-> NoScan]
    /\ tpc = [j \in PhotoIds |-> "none"]
    /\ tdata = [j \in PhotoIds |-> NoData]
    /\ sent = {}
    /\ replaced = {}
    /\ now = 0
    /\ swept = <<>>
    /\ resp = [scan |-> [i \in ScanIds |-> NoResponse],
               photo |-> [j \in PhotoIds |-> NoResponse]]
    /\ sweep = IdleSweep
    /\ lock = NoHolder
    /\ bus = EmptyBus

\* the quick check of save_attendance_records: an exception in
\* find_latest_photo is caught there and None is returned
PhotoLookup(d, u, t, err) == IF err THEN NoPhoto ELSE find_latest_photo(d, u, t)

\* "existing = db.query(AttendanceRecord).filter(...).first()": the session
\* is made with autoflush=False, so the query sees the committed rows and
\* not the rows this upload has added with db.add
Existing(r) ==
    \E i \in committed :
        scans[i].device = r.device /\ scans[i].user = r.user /\ scans[i].time = r.time

\* the new record of a line, as kept in scans
ScanRecord(r, photo, first) ==
    [user |-> r.user, device |-> r.device, time |-> r.time, in_out |-> r.in_out,
     verify_mode |-> r.verify_mode, found |-> photo, first |-> first]

\* ScanLookup with the else of "if photo_path:" lost: the record with a
\* photo is also put into the table and gets a timeout worker
ScanLookup_FallThrough(r, err) ==
    /\ req.pc \in {"idle", "commit"}
    /\ Len(scans) + Len(photos) < MaxUploads
    /\ ~Existing(r)
    /\ LET sid == Len(scans) + 1
           first == IF req.first = NoScan THEN sid ELSE req.first
           photo == PhotoLookup(r.device, r.user, r.time, err)
       IN /\ scans' = Append(scans, ScanRecord(r, photo, first))
          /\ spc' = IF photo # NoPhoto THEN [spc EXCEPT ![sid] = "queued"] ELSE spc
          /\ req' = [pc |-> "put", sid |-> sid, first |-> first, err |-> err]
    /\ UNCHANGED <<pending, photos, committed, wpc, wclaimed, tpc, tdata, sent, replaced, now, swept, resp, sweep, lock, bus>>

\* save_attendance_records, one line of the upload that is a new record:
\* duplicate check, db.add, the quick check for an immediate photo and,
\* when one is found, the queued send_notification_with_photo. A line whose
\* record exists is skipped and changes nothing. The loop takes the next
\* line without leaving the event loop (pc "commit": the line is done).
ScanLookup(r, err) ==
    /\ req.pc \in {"idle", "commit"}
    /\ Len(scans) + Len(photos) < MaxUploads
    /\ ~Existing(r)
    /\ LET sid == Len(scans) + 1
           first == IF req.first = NoScan THEN sid ELSE req.first
           photo == PhotoLookup(r.device, r.user, r.time, err)
       IN /\ scans' = Append(scans, ScanRecord(r, photo, first))
          /\ IF photo # NoPhoto
                THEN /\ spc' = [spc EXCEPT ![sid] = "queued"]
                     /\ req' = [pc |-> "commit", sid |-> sid, first |-> first, err |-> err]
                ELSE /\ spc' = spc
                     /\ req' = [pc |-> "put", sid |-> sid, first |-> first, err |-> err]
    /\ UNCHANGED <<pending, photos, committed, wpc, wclaimed, tpc, tdata, sent, replaced, now, swept, resp, sweep, lock, bus>>

\* pending_notifications[user_id] = {...} as a setdefault: an entry that is
\* already in the table stays
Put_KeepOld(tbl, u, e) ==
    [x \in (DOMAIN tbl) \cup {u} |-> IF x = u /\ u \notin DOMAIN tbl THEN e ELSE tbl[x]]

\* pending_notifications[user_id] = {...}
Put(tbl, u, e) == [x \in (DOMAIN tbl) \cup {u} |-> IF x = u THEN e ELSE tbl[x]]

\* ScanPut that queues the timeout worker without the Put
ScanPut_NoPut ==
    /\ req.pc = "put"
    /\ WithLock(Holder("put", req.sid))
    /\ wpc' = [wpc EXCEPT ![req.sid] = "queued"]
    /\ req' = [req EXCEPT !.pc = "commit"]
    /\ UNCHANGED <<pending, replaced, photos, scans, committed, spc, wclaimed, tpc, tdata, sent,
                   now, swept, resp, sweep, bus>>

\* ScanPut where an exception of the photo lookup reaches the except clause
\* around the notification block: no pending entry, no timeout worker
ScanPut_SkipOnError ==
    /\ req.pc = "put"
    /\ WithLock(Holder("put", req.sid))
    /\ LET sid == req.sid
           rec == scans[sid]
       IN IF req.err
             THEN UNCHANGED <<pending, wpc, replaced, sweep>>
             ELSE /\ pending' = Put(pending, rec.user, Entry(sid, rec))
                  /\ wpc' = [wpc EXCEPT ![sid] = "queued"]
                  /\ replaced' = IF rec.user \in DOMAIN pending
                                   THEN replaced \cup {pending[rec.user].sid}
                                   ELSE replaced
    /\ req' = [req EXCEPT !.pc = "commit"]
    /\ UNCHANGED <<photos, scans, committed, spc, wclaimed, tpc, tdata, sent, now, swept, resp, sweep, bus>>

\* save_attendance_records, no photo found: the Put under the lock and the
\* queued handle_notification_timeout_sync
ScanPut ==
    /\ req.pc = "put"
    /\ WithLock(Holder("put", req.sid))
    /\ LET sid == req.sid
           rec == scans[sid]
       IN /\ pending' = Put(pending, rec.user, Entry(sid, rec))
          /\ wpc' = [wpc EXCEPT ![sid] = "queued"]
          /\ replaced' = IF rec.user \in DOMAIN pending
                           THEN replaced \cup {pending[rec.user].sid}
                           ELSE replaced
    /\ req' = [req EXCEPT !.pc = "commit"]
    /\ UNCHANGED <<photos, scans, committed, spc, wclaimed, tpc, tdata, sent, now, swept, resp, sweep, bus>>

\* the records added by the upload being processed
Batch == {i \in 1..Len(scans) : scans[i].first = req.first}

\* save_attendance_records: db.commit(); cdata returns "OK" and the
\* background tasks of the request start
ScanCommit ==
    /\ req.pc = "commit"
    /\ committed' = committed \cup Batch
    /\ resp' = [resp EXCEPT !.scan = [i \in ScanIds |->
                    IF i \in Batch THEN Response(FALSE) ELSE resp.scan[i]]]
    /\ req' = IdleReq
    /\ UNCHANGED <<pending, photos, scans, spc, wpc, wclaimed, tpc, tdata, sent, replaced, now, swept, sweep, lock, bus>>

\* BackgroundTasks.__call__ runs the tasks of one request in the order they
\* were added, each after the one before has returned
TaskTurn(i) ==
    \A k \in 1..(i - 1) :
        scans[k].first = scans[i].first
        => (spc[k] \in {"none", "done"} /\ wpc[k] \in {"none", "done"})

\* send_notification_with_photo; whether send_attendance_notification
\* returns (ok) or raises, the except clause only logs
SendWithPhoto(i, ok) ==
    /\ spc[i] = "queued"
    /\ i \in committed
    /\ TaskTurn(i)
    /\ sent' = sent \cup {Notification(i, scans[i].user, scans[i].device, scans[i].time,
                                       scans[i].in_out, scans[i].verify_mode,
                                       scans[i].found, <<"immediate", i>>)}
    /\ spc' = [spc EXCEPT ![i] = "done"]
    /\ UNCHANGED <<pending, photos, scans, req, committed, wpc, wclaimed, tpc, tdata, replaced, now, swept, resp, sweep, lock, bus>>

\* TimeoutClaim called in save_attendance_records instead of being queued
\* with background_tasks.add_task: it runs before the response
TimeoutClaim_Inline(i) ==
    /\ wpc[i] = "queued"
    /\ WithLock(Holder("timeout", i))
    /\ TaskTurn(i)
    /\ LET u == scans[i].user IN
       IF u \in DOMAIN pending
          THEN /\ pending' = Del(pending, u)
               /\ wclaimed' = [wclaimed EXCEPT ![i] = pending[u].sid]
               /\ wpc' = [wpc EXCEPT ![i] = "send"]
          ELSE /\ pending' = pending
               /\ wclaimed' = wclaimed
               /\ wpc' = [wpc EXCEPT ![i] = "done"]
    /\ UNCHANGED <<photos, scans, req, committed, spc, tpc, tdata, sent, replaced, now, swept, resp, sweep, bus>>

\* TimeoutClaim without "del pending_notifications[user_id]"
TimeoutClaim_NoDel(i) ==
    /\ wpc[i] = "queued"
    /\ WithLock(Holder("timeout", i))
    /\ i \in committed
    /\ TaskTurn(i)
    /\ LET u == scans[i].user IN
       IF u \in DOMAIN pending
          THEN /\ wclaimed' = [wclaimed EXCEPT ![i] = pending[u].sid]
               /\ wpc' = [wpc EXCEPT ![i] = "send"]
          ELSE /\ wclaimed' = wclaimed
               /\ wpc' = [wpc EXCEPT ![i] = "done"]
    /\ UNCHANGED <<pending, photos, scans, req, committed, spc, tpc, tdata, sent, replaced, now, swept, resp, sweep, bus>>

\* handle_notification_timeout_sync after time.sleep(10): the block under
\* pending_notifications_lock
TimeoutClaim(i) ==
    /\ wpc[i] = "queued"
    /\ WithLock(Holder("timeout", i))
    /\ i \in committed
    /\ TaskTurn(i)
    /\ LET u == scans[i].user IN
       IF u \in DOMAIN pending
          THEN /\ pending' = Del(pending, u)
               /\ wclaimed' = [wclaimed EXCEPT ![i] = pending[u].sid]
               /\ wpc' = [wpc EXCEPT ![i] = "send"]
          ELSE /\ pending' = pending
               /\ wclaimed' = wclaimed
               /\ wpc' = [wpc EXCEPT ![i] = "done"]
    /\ UNCHANGED <<photos, scans, req, committed, spc, tpc, tdata, sent, replaced, now, swept, resp, sweep, bus>>

\* handle_notification_timeout_sync: the text-only notification, built from
\* the arguments the task was queued with; a raising Notifier is only logged
TimeoutSend(i, ok) ==
    /\ wpc[i] = "send"
    /\ sent' = sent \cup {Notification(i, scans[i].user, scans[i].device, scans[i].time,
                                       scans[i].in_out, scans[i].verify_mode,
                                       NoPhoto, <<"timeout", i>>)}
    /\ wpc' = [wpc EXCEPT ![i] = "done"]
    /\ UNCHANGED <<pending, photos, scans, req, committed, spc, wclaimed, tpc, tdata, replaced, now, swept, resp, sweep, lock, bus>>

\* re.match(r'\d{14}-(\d+)\.jpg', photo_filename) taken as always matching
Matches_Any(j) == TRUE

\* re.match(r'\d{14}-(\d+)\.jpg', photo_filename): without a match the
\* trigger returns before it looks at the table
Matches(j) == photos[j].valid

\* POST /iclock/cdata, multipart ATTPHOTO: save_photo, then the queued
\* trigger_pending_notifications_sync (queued whatever save_photo returned)
PhotoUploadCdata(p, saved) ==
    /\ EventLoopFree
    /\ Len(scans) + Len(photos) < MaxUploads
    /\ photos' = Append(photos, [user |-> p.user, device |-> p.device, time |-> p.time,
                                 route |-> "cdata", saved |-> saved, valid |-> p.valid])
    /\ tpc' = [tpc EXCEPT ![Len(photos) + 1] = "sync"]
    /\ resp' = [resp EXCEPT !.photo[Len(photos) + 1] = Response(FALSE)]
    /\ UNCHANGED <<pending, scans, req, committed, spc, wpc, wclaimed, tdata, sent, replaced, now, swept, sweep, lock, bus>>

\* TriggerSyncClaim that takes the entry only when the photo comes from the
\* device of the scan and lies within the window of the scan-side lookup
TriggerSyncClaim_Windowed(j) ==
    /\ tpc[j] = "sync"
    /\ WithLock(Holder("trigger", j))
    /\ LET u == photos[j].user IN
       IF /\ Matches(j) /\ u \in DOMAIN pending
          /\ pending[u].device_serial = photos[j].device
          /\ Abs(pending[u].attendance_time - photos[j].time) <= ProximityWindow
          THEN /\ tdata' = [tdata EXCEPT ![j] = pending[u]]
               /\ pending' = Del(pending, u)
               /\ tpc' = [tpc EXCEPT ![j] = "send"]
          ELSE /\ tdata' = tdata
               /\ pending' = pending
               /\ tpc' = [tpc EXCEPT ![j] = "done"]
    /\ UNCHANGED <<photos, scans, req, committed, spc, wpc, wclaimed, sent, replaced, now, swept,
                   resp, sweep, bus>>

\* TriggerSyncClaim that goes on to send when it found no entry
TriggerSyncClaim_SendAnyway(j) ==
    /\ tpc[j] = "sync"
    /\ WithLock(Holder("trigger", j))
    /\ LET u == photos[j].user IN
       IF Matches(j) /\ u \in DOMAIN pending
          THEN /\ tdata' = [tdata EXCEPT ![j] = pending[u]]
               /\ pending' = Del(pending, u)
          ELSE /\ tdata' = tdata
               /\ pending' = pending
    /\ tpc' = [tpc EXCEPT ![j] = "send"]
    /\ UNCHANGED <<photos, scans, req, committed, spc, wpc, wclaimed, sent, replaced, now, swept, resp, sweep, bus>>

\* TriggerSyncClaim that copies the entry but leaves it in the table
TriggerSyncClaim_NoDel(j) ==
    /\ tpc[j] = "sync"
    /\ WithLock(Holder("trigger", j))
    /\ LET u == photos[j].user IN
       IF Matches(j) /\ u \in DOMAIN pending
          THEN /\ tdata' = [tdata EXCEPT ![j] = pending[u]]
               /\ tpc' = [tpc EXCEPT ![j] = "send"]
          ELSE /\ tdata' = tdata
               /\ tpc' = [tpc EXCEPT ![j] = "done"]
    /\ UNCHANGED <<pending, photos, scans, req, committed, spc, wpc, wclaimed, sent, replaced, now, swept, resp, sweep, bus>>

\* trigger_pending_notifications_sync: the block under
\* pending_notifications_lock (copy of the entry, then del)
TriggerSyncClaim(j) ==
    /\ tpc[j] = "sync"
    /\ WithLock(Holder("trigger", j))
    /\ LET u == photos[j].user IN
       IF Matches(j) /\ u \in DOMAIN pending
          THEN /\ tdata' = [tdata EXCEPT ![j] = pending[u]]
               /\ pending' = Del(pending, u)
               /\ tpc' = [tpc EXCEPT ![j] = "send"]
          ELSE /\ tdata' = tdata
               /\ pending' = pending
               /\ tpc' = [tpc EXCEPT ![j] = "done"]
    /\ UNCHANGED <<photos, scans, req, committed, spc, wpc, wclaimed, sent, replaced, now, swept, resp, sweep, bus>>

\* the notification of a photo trigger: user_id from the filename,
\* device_serial of the upload, the other fields from pending_data
PhotoNotification(j, by) ==
    Notification(tdata[j].sid, photos[j].user, photos[j].device,
                 tdata[j].attendance_time, tdata[j].in_out, tdata[j].verify_mode,
                 IF photos[j].saved THEN j ELSE NoPhoto, by)

\* trigger_pending_notifications_sync: found_pending, the notification with
\* saved_path; a raising Notifier is only logged
TriggerSyncSend(j, ok) ==
    /\ tpc[j] = "send"
    /\ sent' = sent \cup {PhotoNotification(j, <<"photo_sync", j>>)}
    /\ tpc' = [tpc EXCEPT ![j] = "done"]
    /\ UNCHANGED <<pending, photos, scans, req, committed, spc, wpc, wclaimed, tdata, replaced, now, swept, resp, sweep, lock, bus>>

\* POST /iclock/fdata, table=ATTPHOTO: save_photo_file; the inline trigger
\* is awaited only when a path was returned, and "OK" is returned after it
PhotoUploadFdata(p, saved) ==
    /\ EventLoopFree
    /\ Len(scans) + Len(photos) < MaxUploads
    /\ photos' = Append(photos, [user |-> p.user, device |-> p.device, time |-> p.time,
                                 route |-> "fdata", saved |-> saved, valid |-> p.valid])
    /\ tpc' = [tpc EXCEPT ![Len(photos) + 1] = IF saved THEN "inline" ELSE "done"]
    /\ resp' = IF saved THEN resp
                ELSE [resp EXCEPT !.photo[Len(photos) + 1] = Response(FALSE)]
    /\ UNCHANGED <<pending, scans, req, committed, spc, wpc, wclaimed, tdata, sent, replaced, now, swept, sweep, lock, bus>>

\* trigger_pending_notifications: "if user_id in pending_notifications" and
\* the read of the entry, no lock taken, the entry stays in the table
InlineCheck(j) ==
    /\ EventLoopFree
    /\ tpc[j] = "inline"
    /\ LET u == photos[j].user IN
       IF Matches(j) /\ u \in DOMAIN pending
          THEN /\ tdata' = [tdata EXCEPT ![j] = pending[u]]
               /\ tpc' = [tpc EXCEPT ![j] = "inline_send"]
               /\ resp' = resp
          ELSE /\ tdata' = tdata
               /\ tpc' = [tpc EXCEPT ![j] = "done"]
               /\ resp' = [resp EXCEPT !.photo[j] = Response(FALSE)]
    /\ UNCHANGED <<pending, photos, scans, req, committed, spc, wpc, wclaimed, sent, replaced, now, swept, sweep, lock, bus>>

\* InlineSend without the try/except of trigger_pending_notifications and
\* of fdata: the exception of the Notifier leaves the handler
InlineSend_Uncaught(j, ok) ==
    /\ EventLoopFree
    /\ tpc[j] = "inline_send"
    /\ sent' = sent \cup {PhotoNotification(j, <<"photo_inline", j>>)}
    /\ tpc' = [tpc EXCEPT ![j] = IF ok THEN "inline_del" ELSE "failed"]
    /\ resp' = IF ok THEN resp ELSE [resp EXCEPT !.photo[j] = Response(TRUE)]
    /\ UNCHANGED <<pending, photos, scans, req, committed, spc, wpc, wclaimed, tdata, replaced, now, swept, sweep, lock, bus>>

\* trigger_pending_notifications: await send_attendance_notification; when
\* it raises, the except clause ends the trigger before the del and fdata
\* returns "OK"
InlineSend(j, ok) ==
    /\ EventLoopFree
    /\ tpc[j] = "inline_send"
    /\ sent' = sent \cup {PhotoNotification(j, <<"photo_inline", j>>)}
    /\ tpc' = [tpc EXCEPT ![j] = IF ok THEN "inline_del" ELSE "failed"]
    /\ resp' = IF ok THEN resp ELSE [resp EXCEPT !.photo[j] = Response(FALSE)]
    /\ UNCHANGED <<pending, photos, scans, req, committed, spc, wpc, wclaimed, tdata, replaced, now, swept, sweep, lock, bus>>

\* trigger_pending_notifications: del pending_notifications[user_id] after
\* the await; a KeyError is caught by the except clause; fdata returns "OK"
InlineDel(j) ==
    /\ EventLoopFree
    /\ tpc[j] = "inline_del"
    /\ LET u == photos[j].user IN
       pending' = IF u \in DOMAIN pending THEN Del(pending, u) ELSE pending
    /\ tpc' = [tpc EXCEPT ![j] = "done"]
    /\ resp' = [resp EXCEPT !.photo[j] = Response(FALSE)]
    /\ UNCHANGED <<photos, scans, req, committed, spc, wpc, wclaimed, tdata, sent, replaced, now, swept, sweep, lock, bus>>

\* the paths that claim under pending_notifications_lock
NextLocked ==
    \/ \E r \in ScanInputs, err \in BOOLEAN : ScanLookup(r, err)
    \/ ScanPut
    \/ ScanCommit
    \/ \E i \in ScanIds, ok \in BOOLEAN : SendWithPhoto(i, ok)
    \/ \E i \in ScanIds : TimeoutClaim(i)
    \/ \E i \in ScanIds, ok \in BOOLEAN : TimeoutSend(i, ok)
    \/ \E p \in PhotoInputs, saved \in BOOLEAN : PhotoUploadCdata(p, saved)
    \/ \E j \in PhotoIds : TriggerSyncClaim(j)
    \/ \E j \in PhotoIds, ok \in BOOLEAN : TriggerSyncSend(j, ok)

Next ==
    \/ NextLocked
    \/ \E p \in PhotoInputs, saved \in BOOLEAN : PhotoUploadFdata(p, saved)
    \/ \E j \in PhotoIds : InlineCheck(j)
    \/ \E j \in PhotoIds, ok \in BOOLEAN : InlineSend(j, ok)
    \/ \E j \in PhotoIds : InlineDel(j)

Spec == Init /\ [][Next]_vars

\* only POST /iclock/cdata is used for scans and photos
SpecLocked == Init /\ [][NextLocked]_vars

\* the timeout worker of every earlier scan of the user has completed
PreviousWorkersDone(u) ==
    \A i \in 1..Len(scans) : scans[i].user = u => wpc[i] \in {"none", "done"}

\* a scan of a user is uploaded only after the timeout worker of the
\* user's previous scan has completed
ScanLookupSequential(r, err) ==
    /\ PreviousWorkersDone(r.user)
    /\ ScanLookup(r, err)

NextSequential ==
    \/ \E r \in ScanInputs, err \in BOOLEAN : ScanLookupSequential(r, err)
    \/ ScanPut
    \/ ScanCommit
    \/ \E i \in ScanIds, ok \in BOOLEAN : SendWithPhoto(i, ok)
    \/ \E i \in ScanIds : TimeoutClaim(i)
    \/ \E i \in ScanIds, ok \in BOOLEAN : TimeoutSend(i, ok)
    \/ \E p \in PhotoInputs, saved \in BOOLEAN : PhotoUploadCdata(p, saved)
    \/ \E j \in PhotoIds : TriggerSyncClaim(j)
    \/ \E j \in PhotoIds, ok \in BOOLEAN : TriggerSyncSend(j, ok)

\* only POST /iclock/cdata is used, and the scans of one user do not overlap
SpecSequential == Init /\ [][NextSequential]_vars

\* ---- the expiry sweep ----

\* "current_time - data['created_at'] > timedelta(minutes=5)", with >= for >
IsExpired_Inclusive(e, t) == t - e.created_at >= MaxAge

\* "current_time - data['created_at'] > timedelta(minutes=5)"
IsExpired(e, t) == t - e.created_at > MaxAge

\* cleanup_expired_pending_notifications: the keys collected as expired are
\* deleted, their number is returned
cleanup_expired_pending_notifications(tbl, t) ==
    LET expired_keys == {u \in DOMAIN tbl : IsExpired(tbl[u], t)}
    IN [table |-> [u \in (DOMAIN tbl) \ expired_keys |-> tbl[u]],
        count |-> Cardinality(expired_keys)]

\* one call of the sweep (NotificationService holds the lock over it)
Sweep ==
    /\ Len(swept) < MaxSweeps
    /\ WithLock(Holder("sweep", 0))
    /\ LET r == cleanup_expired_pending_notifications(pending, now)
       IN /\ pending' = r.table
          /\ swept' = Append(swept, r.count)
    /\ UNCHANGED <<photos, scans, req, committed, spc, wpc, wclaimed, tpc, tdata, sent, replaced,
                   now, resp, sweep, bus>>

\* datetime.now() moves on between two calls
Tick(t) ==
    /\ t > now
    /\ now' = t
    /\ UNCHANGED <<pending, photos, scans, req, committed, spc, wpc, wclaimed, tpc, tdata, sent,
                   replaced, swept, resp, sweep, lock, bus>>

\* the users that can have an entry
Users == {r.user : r \in ScanInputs}

\* the tables the sweep can be called on at time t: any set of users, each
\* entry created at a reading of the clock not after t
SweepTables(t) ==
    UNION { [U -> {[Entry(NoScan, r) EXCEPT !.created_at = c] :
                     r \in ScanInputs, c \in {x \in ClockTimes : x <= t}}] :
            U \in SUBSET Users }

InitSweep ==
    /\ now \in ClockTimes
    /\ pending \in SweepTables(now)
    /\ photos = <<>>
    /\ scans = <<>>
    /\ req = IdleReq
    /\ committed = {}
    /\ spc = [i \in ScanIds |-> "none"]
    /\ wpc = [i \in ScanIds |-> "none"]
    /\ wclaimed = [i \in ScanIds |-> NoScan]
    /\ tpc = [j \in PhotoIds |-> "none"]
    /\ tdata = [j \in PhotoIds |-> NoData]
    /\ sent = {}
    /\ replaced = {}
    /\ swept = <<>>
    /\ resp = [scan |-> [i \in ScanIds |-> NoResponse],
               photo |-> [j \in PhotoIds |-> NoResponse]]
    /\ sweep = IdleSweep
    /\ lock = NoHolder
    /\ bus = EmptyBus

NextSweep ==
    \/ Sweep
    \/ \E t \in ClockTimes : Tick(t)

\* cleanup_expired_pending_notifications called on any table at any time
SpecSweep == InitSweep /\ [][NextSweep]_vars

\* cleanup_expired_pending_notifications of main.py, first loop: the keys
\* of the expired entries are collected; no lock is taken
SweepCollect ==
    /\ sweep.pc = "idle"
    /\ Len(swept) < MaxSweeps
    /\ sweep' = [pc |-> "delete",
                 keys |-> {u \in DOMAIN pending : IsExpired(pending[u], now)},
                 at |-> now]
    /\ UNCHANGED <<pending, photos, scans, req, committed, spc, wpc, wclaimed, tpc, tdata, sent,
                   replaced, now, swept, resp, lock, bus>>

\* cleanup_expired_pending_notifications of main.py, second loop: "del
\* pending_notifications[key]" for every collected key, whatever is stored
\* under it by now; a key that is gone raises KeyError out of the function,
\* after the keys before it were deleted
SweepDelete ==
    /\ sweep.pc = "delete"
    /\ IF sweep.keys \subseteq DOMAIN pending
          THEN /\ pending' = [u \in (DOMAIN pending) \ sweep.keys |-> pending[u]]
               /\ swept' = Append(swept, Cardinality(sweep.keys))
          ELSE /\ \E done \in SUBSET (sweep.keys \cap DOMAIN pending) :
                     pending' = [u \in (DOMAIN pending) \ done |-> pending[u]]
               /\ swept' = Append(swept, KeyError)
    /\ sweep' = IdleSweep
    /\ UNCHANGED <<photos, scans, req, committed, spc, wpc, wclaimed, tpc, tdata, sent, replaced,
                   now, resp, lock, bus>>

\* scan uploads and timeout workers while the sweep of main.py runs in
\* another thread
NextSweepMain ==
    \/ \E r \in ScanInputs, err \in BOOLEAN : ScanLookup(r, err)
    \/ ScanPut
    \/ ScanCommit
    \/ \E i \in ScanIds : TimeoutClaim(i)
    \/ \E i \in ScanIds, ok \in BOOLEAN : TimeoutSend(i, ok)
    \/ \E t \in ClockTimes : Tick(t)
    \/ SweepCollect
    \/ SweepDelete

SpecSweepMain == Init /\ [][NextSweepMain]_vars

\* ---- the lock, one step for acquiring it ----

\* the tasks that can be inside a "with pending_notifications_lock:" block
Holders == {Holder(k, i) : k \in {"put", "timeout"}, i \in ScanIds}
               \cup {Holder("trigger", j) : j \in PhotoIds}

\* task h has reached its "with pending_notifications_lock:" statement
AtBlock(h) ==
    CASE h.kind = "put" -> req.pc = "put" /\ req.sid = h.id
      [] h.kind = "timeout" -> wpc[h.id] = "queued" /\ h.id \in committed /\ TaskTurn(h.id)
      [] h.kind = "trigger" -> tpc[h.id] = "sync"

\* threading.Lock.__enter__: the task waits until the lock is free and
\* takes it; the statements of the block are the next step of the task
Acquire(h) ==
    /\ lock = NoHolder
    /\ AtBlock(h)
    /\ lock' = h
    /\ UNCHANGED <<pending, photos, scans, req, committed, spc, wpc, wclaimed, tpc, tdata, sent,
                   replaced, now, swept, resp, sweep, bus>>

\* the lock-protected paths with the threads preempted inside their blocks
NextLock ==
    \/ NextLocked
    \/ \E h \in Holders : Acquire(h)

SpecLock == Init /\ [][NextLock]_vars

\* ---- the event bus ----

\* bound on the subscriptions of one event type
MaxHandlers == 2

\* 'photo_uploaded' and 'attendance_recorded'
EventTypes == {"photo_uploaded", "attendance_recorded"}

\* the callables that can be subscribed: id names the callable, raises
\* tells whether calling it raises an Exception
Handlers == [id : 1..2, raises : BOOLEAN]

\* EventBus.subscribe: the handler is appended to the list of the event
\* type, which is created when missing
subscribe(handlers, event_type, handler) ==
    IF event_type \in DOMAIN handlers
       THEN [handlers EXCEPT ![event_type] = Append(@, handler)]
       ELSE [e \in (DOMAIN handlers) \cup {event_type} |->
                IF e = event_type THEN <<handler>> ELSE handlers[e]]

\* one pass of the loop without the try statement: an Exception of the
\* handler leaves publish
CallHandler_Uncaught(h, out) ==
    [calls |-> Append(out.calls, h.id), escaped |-> h.raises]

\* one pass of the loop of publish: the handler is called (awaited when it
\* is a coroutine function); an Exception it raises is caught and logged
CallHandler(h, out) ==
    [calls |-> Append(out.calls, h.id), escaped |-> FALSE]

\* "for handler in self._handlers[event_type]"; an exception that left the
\* loop body ends the loop
RECURSIVE PublishLoop(_, _)
PublishLoop(hs, out) ==
    IF hs = <<>> \/ out.escaped
       THEN out
       ELSE PublishLoop(Tail(hs), CallHandler(Head(hs), out))

\* EventBus.publish: the handlers called, in order, and whether an
\* exception reached the caller
publish(handlers, event_type) ==
    IF event_type \notin DOMAIN handlers
       THEN [calls |-> <<>>, escaped |-> FALSE]
       ELSE PublishLoop(handlers[event_type], [calls |-> <<>>, escaped |-> FALSE])

Subscribe(e, h) ==
    /\ e \in DOMAIN bus.handlers => Len(bus.handlers[e]) < MaxHandlers
    /\ bus' = [bus EXCEPT !.handlers = subscribe(@, e, h)]
    /\ UNCHANGED <<pending, photos, scans, req, committed, spc, wpc, wclaimed, tpc, tdata, sent,
                   replaced, now, swept, resp, sweep, lock>>

\* one call of publish (for 'photo_uploaded' from
\* handle_photo_uploaded_sync, through publish_photo_uploaded)
Publish(e) ==
    /\ LET r == publish(bus.handlers, e)
       IN bus' = [bus EXCEPT !.published = e, !.calls = r.calls, !.escaped = r.escaped]
    /\ UNCHANGED <<pending, photos, scans, req, committed, spc, wpc, wclaimed, tpc, tdata, sent,
                   replaced, now, swept, resp, sweep, lock>>

NextBus ==
    \/ \E e \in EventTypes, h \in Handlers : Subscribe(e, h)
    \/ \E e \in EventTypes : Publish(e)

\* subscriptions and publications on the event bus
SpecBus == Init /\ [][NextBus]_vars

\* ---- properties ----

\* notifications that carry the data of scan i
SentFor(i) == {n \in sent : n.sid = i}

\* scan i took the no-photo branch and its Put has been executed
Registered(i) ==
    /\ i \in 1..Len(scans)
    /\ scans[i].found = NoPhoto
    /\ ~(req.sid = i /\ req.pc = "put")

\* photo trigger j ran the locked claim and found the entry of scan i
SyncClaimed(j, i) ==
    /\ j \in 1..Len(photos)
    /\ photos[j].route = "cdata"
    /\ tpc[j] \in {"send", "done"}
    /\ tdata[j].sid = i

\* the inline trigger of photo j found the entry of scan i in the table
InlineFound(j, i) ==
    /\ j \in 1..Len(photos)
    /\ photos[j].route = "fdata"
    /\ tdata[j].sid = i

\* no request is being processed and no task is queued or running
Quiescent ==
    /\ req.pc = "idle"
    /\ \A i \in ScanIds : spc[i] \in {"none", "done"} /\ wpc[i] \in {"none", "done"}
    /\ \A j \in PhotoIds : tpc[j] \in {"none", "done", "failed"}

\* a later scan of the same user took the no-photo branch
LaterPut(i) ==
    \E k \in 1..Len(scans) :
        k > i /\ scans[k].user = scans[i].user /\ scans[k].found = NoPhoto

\* C1: the data of one scan is handed to the Notifier in at most one
\* notification, under any interleaving of scan uploads, photo uploads on
\* both routes and timeout workers.
C1_AtMostOncePerScan ==
    \A i \in 1..Len(scans) : Cardinality(SentFor(i)) <= 1

\* C2: every scan whose immediate lookup found nothing has been dispatched
\* once every scheduled timeout worker and every photo trigger has run,
\* whatever other scans and photos arrived meanwhile.
C2_NeverZero ==
    Quiescent => \A i \in 1..Len(scans) : Registered(i) => SentFor(i) # {}

C4_InlineClaimAtomic ==
    \A j \in 1..Len(photos), i \in 1..Len(scans) :
        InlineFound(j, i) => \A k \in 1..Len(scans) : wclaimed[k] # i

\* C5: one scan upload and one photo upload for the same user, processed
\* concurrently: when everything has run exactly one notification was
\* dispatched.
C5_OneScanOnePhoto ==
    ( /\ Quiescent
      /\ Len(scans) = 1 /\ Len(photos) = 1
      /\ scans[1].user = photos[1].user )
    => Cardinality(sent) = 1

\* C6: when the photo event of a stored photo claimed the pending entry of
\* a scan before the scan's timeout worker made its claim, the notification
\* has the photo set and the timeout worker finds nothing and dispatches
\* nothing.
C6_PhotoBeforeTimeout ==
    \A i \in 1..Len(scans), j \in 1..Len(photos) :
        (SyncClaimed(j, i) /\ photos[j].saved)
        => /\ \A n \in SentFor(i) : n.photo_path = j
           /\ wclaimed[i] = NoScan
           /\ \A n \in sent : n.by # <<"timeout", i>>

\* a photo trigger of photo j makes its check of the table in this step
PhotoCheckStep(j) ==
    /\ j \in 1..Len(photos)
    /\ tpc[j] \in {"sync", "inline"}
    /\ tpc'[j] # tpc[j]

\* the timeout worker of scan i removed the entry of scan i, so no photo
\* trigger had taken that entry before
TimedOut(i) ==
    /\ i \in 1..Len(scans)
    /\ wclaimed[i] = i

\* a later scan of the same user has been put into the table
LaterRegistered(i) ==
    \E k \in 1..Len(scans) :
        k > i /\ scans[k].user = scans[i].user /\ Registered(k)

\* C7 as stated: after the timeout worker of a pending scan claimed it
\* with no photo event before, its notification has no photo, and every
\* photo event for that user processed afterwards dispatches nothing and
\* leaves the table unchanged.
C7_Original ==
    [][ \A i \in ScanIds, j \in PhotoIds :
          (TimedOut(i) /\ PhotoCheckStep(j) /\ photos[j].user = scans[i].user)
          => (pending' = pending /\ tpc'[j] = "done") ]_vars

\* C7 amended: after the timeout worker of a pending scan claimed it with
\* no photo event before, its notification has no photo reference, and
\* every photo event for that user processed afterwards, while no later
\* scan of that user has been registered as pending, dispatches nothing
\* and leaves the table unchanged.
C7_TimeoutThenPhoto ==
    /\ [](\A i \in 1..Len(scans) : \A n \in sent :
             n.by = <<"timeout", i>> => n.photo_path = NoPhoto)
    /\ [][ \A i \in ScanIds, j \in PhotoIds :
             ( /\ TimedOut(i) /\ ~LaterRegistered(i)
               /\ PhotoCheckStep(j) /\ photos[j].user = scans[i].user )
             => (pending' = pending /\ sent' = sent /\ tpc'[j] = "done") ]_vars

\* C7 witness: the entry of scan i was put, its timeout worker claimed it
\* and sent the text-only notification, and a photo stored after the scan's
\* lookup was then checked against the table and found nothing.
C7_Witness ==
    \E i \in 1..Len(scans), j \in 1..Len(photos) :
        /\ TimedOut(i) /\ wpc[i] = "done" /\ ~LaterRegistered(i)
        /\ \E n \in sent : n.by = <<"timeout", i>> /\ n.photo_path = NoPhoto
        /\ photos[j].route = "fdata" /\ photos[j].saved
        /\ j \in PhotoMatches(scans[i].device, scans[i].user, scans[i].time)
        /\ tpc[j] = "done" /\ tdata[j] = NoData

\* C8: a scan whose lookup found a photo has exactly one notification
\* queued, with that photo; no pending entry was ever created for it and
\* no timeout worker was queued for it.
C8_ImmediatePhoto ==
    \A i \in 1..Len(scans) :
        scans[i].found # NoPhoto
        => /\ scans[i].found \in PhotoMatches(scans[i].device, scans[i].user, scans[i].time)
           /\ spc[i] \in {"queued", "done"}
           /\ wpc[i] = "none"
           /\ \A u \in DOMAIN pending : pending[u].sid # i
           /\ i \notin replaced
           /\ \A k \in ScanIds : wclaimed[k] # i
           /\ \A j \in PhotoIds : tdata[j].sid # i
           /\ \A n \in SentFor(i) :
                 n.by = <<"immediate", i>> /\ n.photo_path = scans[i].found
           /\ (spc[i] = "done") = (SentFor(i) # {})

\* C8 witness: a scan found a photo and its queued notification was sent.
C8_Witness ==
    \E i \in 1..Len(scans) :
        /\ scans[i].found # NoPhoto
        /\ spc[i] = "done"
        /\ \E n \in sent : n.sid = i /\ n.photo_path = scans[i].found

\* C9: the data of a scan whose pending entry was replaced by a second scan
\* of the user is never dispatched, and once everything has run the data
\* of a later scan of that user was dispatched.
C9_OnlySecondScan ==
    \A i \in replaced :
        /\ SentFor(i) = {}
        /\ Quiescent => \E k \in 1..Len(scans) :
                           /\ k > i /\ scans[k].user = scans[i].user
                           /\ SentFor(k) # {}

\* C10: the timeout worker of a replaced entry is inert (it removes
\* nothing and dispatches nothing), and a timeout worker only ever claims
\* the entry it was scheduled for.
C10_StaleWorkerInert ==
    \A i \in 1..Len(scans) :
        /\ wclaimed[i] \in {NoScan, i}
        /\ i \in replaced =>
              /\ wclaimed[i] = NoScan
              /\ \A n \in sent : n.by # <<"timeout", i>>

\* C11: registering a pending scan always succeeds and is a full replace:
\* after the Put the table holds for that user exactly the entry of the new
\* scan, the other users' entries are as before, and every entry of the
\* table is the entry of one scan of its user.
C11_PutReplaces ==
    /\ [](req.pc = "put" => ENABLED ScanPut)
    /\ [](\A u \in DOMAIN pending :
             /\ pending[u].sid \in 1..Len(scans)
             /\ scans[pending[u].sid].user = u
             /\ pending[u] = Entry(pending[u].sid, scans[pending[u].sid]))
    /\ [][ (req.pc = "put" /\ req'.pc # "put")
           => LET u == scans[req.sid].user IN
              /\ DOMAIN pending' = (DOMAIN pending) \cup {u}
              /\ pending'[u] = Entry(req.sid, scans[req.sid])
              /\ \A x \in (DOMAIN pending) \ {u} : pending'[x] = pending[x] ]_vars

\* C11 witness: a second scan of a user was put while the entry of the
\* first was in the table; the table holds the fields of the second scan.
C11_Witness ==
    \E i \in replaced : \E u \in DOMAIN pending :
        /\ scans[i].user = u
        /\ pending[u].sid > i
        /\ pending[u].in_out = scans[pending[u].sid].in_out
        /\ pending[u].in_out # scans[i].in_out

\* photo j has been checked against the table and no entry was found
FoundNothing(j) ==
    /\ j \in 1..Len(photos)
    /\ tpc[j] = "done"
    /\ tdata[j] = NoData
    /\ (photos[j].route = "fdata" => photos[j].saved)

\* C12: a photo event for a user without a pending entry (never
\* registered, or already claimed) dispatches nothing and leaves the
\* pending table unchanged.
C12_NoEntryNoEffect ==
    /\ [][ \A j \in PhotoIds :
             (PhotoCheckStep(j) /\ photos[j].user \notin DOMAIN pending)
             => /\ pending' = pending
                /\ sent' = sent
                /\ tpc'[j] = "done"
                /\ tdata'[j] = NoData ]_vars
    /\ [](\A j \in PhotoIds : FoundNothing(j)
             => \A n \in sent : n.by \notin {<<"photo_sync", j>>, <<"photo_inline", j>>})

\* C12 witness: the entry of a scan was claimed by one photo trigger, a
\* second photo of the user was then checked and found nothing, and the
\* only notification is the one of the first.
C12_Witness ==
    \E i \in 1..Len(scans), k \in 1..Len(photos), j \in 1..Len(photos) :
        /\ SyncClaimed(k, i) /\ tpc[k] = "done"
        /\ j # k /\ photos[j].user = scans[i].user
        /\ photos[j].route = "cdata" /\ FoundNothing(j)
        /\ sent = SentFor(i) /\ Cardinality(sent) = 1

\* C13: when the Notifier call made for a claimed entry raised, the entry
\* is not in the pending table and nothing else dispatches that scan, on
\* the background photo path and on the inline /iclock/fdata path.
C13_FailedSendIsFinal ==
    /\ \A j \in 1..Len(photos) :
          tpc[j] = "failed"
          => /\ \A u \in DOMAIN pending : pending[u].sid # tdata[j].sid
             /\ \A n \in SentFor(tdata[j].sid) : n.by = <<"photo_inline", j>>
    /\ \A j \in 1..Len(photos), i \in 1..Len(scans) :
          (SyncClaimed(j, i) /\ tpc[j] = "done")
          => /\ \A u \in DOMAIN pending : pending[u].sid # i
             /\ \A n \in SentFor(i) : n.by = <<"photo_sync", j>>

\* the handler of photo upload j has returned
PhotoHandled(j) ==
    /\ j \in 1..Len(photos)
    /\ \/ photos[j].route = "cdata"
       \/ tpc[j] \in {"done", "failed"}

\* C14: no failure inside correlation leaves the device-facing handlers:
\* every scan upload and every photo upload whose handler has returned was
\* answered "OK", and no upload is answered anything else.
C14_AlwaysOK ==
    /\ \A i \in ScanIds : resp.scan[i] \in {NoResponse, "OK"}
    /\ \A j \in PhotoIds : resp.photo[j] \in {NoResponse, "OK"}
    /\ \A i \in 1..Len(scans) :
          (req.pc = "idle" \/ scans[i].first # req.first) => resp.scan[i] = "OK"
    /\ \A j \in PhotoIds : PhotoHandled(j) => resp.photo[j] = "OK"

\* C14 witness: the Notifier raised inside the inline trigger of an
\* /iclock/fdata upload, a later /iclock/fdata upload found the entry that
\* was left behind and ran to its end; both uploads were answered "OK".
C14_Witness ==
    \E j \in 1..Len(photos), k \in 1..Len(photos) :
        /\ tpc[j] = "failed" /\ resp.photo[j] = "OK"
        /\ k # j /\ photos[k].route = "fdata"
        /\ tpc[k] = "done" /\ tdata[k] # NoData /\ resp.photo[k] = "OK"
        /\ tdata[k].sid = tdata[j].sid

\* the entry of scan i has been put into the table: it is there or a
\* photo trigger or a timeout worker took it
WasPut(i) ==
    \/ \E u \in DOMAIN pending : pending[u].sid = i
    \/ \E j \in PhotoIds : tdata[j].sid = i
    \/ \E k \in ScanIds : wclaimed[k] = i
    \/ i \in replaced

\* C15: a photo lookup that raises is treated like "no photo found": no
\* immediate notification is queued, the scan is registered as pending and
\* its timeout worker is scheduled.
C15_LookupErrorIsNoPhoto ==
    (req.pc # "idle" /\ req.err)
    => /\ scans[req.sid].found = NoPhoto
       /\ spc[req.sid] = "none"
       /\ (req.pc = "commit" => (wpc[req.sid] = "queued" /\ WasPut(req.sid)))

\* C15 witness: a photo of the user was stored within the window, the
\* lookup raised, and the scan was put into the table with its timeout
\* worker queued.
C15_Witness ==
    /\ req.pc = "commit" /\ req.err
    /\ PhotoMatches(scans[req.sid].device, scans[req.sid].user, scans[req.sid].time) # {}
    /\ scans[req.sid].user \in DOMAIN pending
    /\ pending[scans[req.sid].user].sid = req.sid
    /\ wpc[req.sid] = "queued"

\* C16: the timeout wait never runs inside the scan upload request: a
\* timeout worker makes its claim only after the response of the upload
\* that scheduled it, and the response can be produced whatever the state
\* of the timeout workers.
C16_ResponseBeforeWorker ==
    /\ \A i \in 1..Len(scans) :
          wpc[i] \in {"send", "done"} => resp.scan[i] = "OK"
    /\ req.pc = "commit" => ENABLED ScanCommit

\* C16 witness: the upload was answered while the timeout worker it
\* scheduled had not yet finished its wait.
C16_Witness ==
    \E i \in 1..Len(scans) :
        /\ resp.scan[i] = "OK"
        /\ wpc[i] = "queued"
        /\ scans[i].user \in DOMAIN pending

\* C17: the expiry sweep removes exactly the entries whose age is greater
\* than the maximum age, leaves every other entry as it was, and returns
\* the number of entries it removed.
C17_SweepExact ==
    [][ Len(swept') = Len(swept) + 1
        => /\ DOMAIN pending' = {u \in DOMAIN pending : now - pending[u].created_at <= MaxAge}
           /\ \A u \in DOMAIN pending' : pending'[u] = pending[u]
           /\ swept'[Len(swept')] = Cardinality((DOMAIN pending) \ (DOMAIN pending')) ]_vars

\* C17 witness: a sweep removed one entry and left an entry whose age is
\* exactly the maximum age.
C17_Witness ==
    /\ Len(swept) >= 1
    /\ swept[Len(swept)] = 1
    /\ \E u \in DOMAIN pending : now - pending[u].created_at = MaxAge

\* C18: a notification dispatched through a photo claim has the
\* device_serial, scan time, in_out and verify_mode stored in the claimed
\* entry; only the photo reference comes from the photo event.
C18_FieldsFromEntry ==
    \A j \in 1..Len(photos) : \A n \in sent :
        n.by \in {<<"photo_sync", j>>, <<"photo_inline", j>>}
        => /\ n.device_serial = tdata[j].device_serial
           /\ n.timestamp = tdata[j].attendance_time
           /\ n.in_out = tdata[j].in_out
           /\ n.verify_mode = tdata[j].verify_mode
           /\ n.photo_path \in {j, NoPhoto}

\* C19: whenever a notification is dispatched for a scan, the attendance
\* record of that scan has been committed.
C19_CommitBeforeDispatch ==
    \A n \in sent : n.sid \in committed

\* C20: correlation is started at most once per attendance record
\* (device_serial, user_id, timestamp): no two lookups, over any sequence
\* of uploads and lines, are made for the same record.
C20_OncePerRecord ==
    \A i \in 1..Len(scans), k \in 1..Len(scans) :
        ( /\ scans[i].device = scans[k].device
          /\ scans[i].user = scans[k].user
          /\ scans[i].time = scans[k].time )
        => i = k

\* notifications sent by the photo trigger of photo j
SentByPhoto(j) == {n \in sent : n.by \in {<<"photo_sync", j>>, <<"photo_inline", j>>}}

\* C21: an upload whose photo could not be stored (the save returned no
\* path) claims no pending entry and dispatches no notification, on
\* /iclock/cdata and on /iclock/fdata.
C21_UnsavedPhotoNoEvent ==
    \A j \in 1..Len(photos) :
        ~photos[j].saved => (tdata[j] = NoData /\ SentByPhoto(j) = {})

\* C22: a photo upload whose filename yields no user_id produces no photo
\* event: its trigger ends without a claim, without an entry taken from the
\* table and without a notification.
C22_BadFilenameNoEvent ==
    \A j \in 1..Len(photos) :
        ~photos[j].valid
        => /\ tpc[j] \in {"sync", "inline", "done"}
           /\ tdata[j] = NoData
           /\ SentByPhoto(j) = {}

\* C22 witness: the trigger of a stored photo with such a filename has run
\* while an entry of user 07 was in the table; the entry is still there.
C22_Witness ==
    \E j \in 1..Len(photos) :
        /\ ~photos[j].valid /\ photos[j].saved
        /\ tpc[j] = "done"
        /\ photos[j].user \in DOMAIN pending
        /\ sent = {}

\* C23: the expiry sweep iterates the table under the lock: between its
\* age check of an entry and its deletion of that entry no Put and no claim
\* changes the table, so every key it is about to delete still holds an
\* entry that was expired when it was checked.
C23_SweepUnderLock ==
    sweep.pc = "delete"
    => \A u \in sweep.keys :
          u \in DOMAIN pending /\ IsExpired(pending[u], sweep.at)

\* C24: every entry put into the table is removed again: once no upload is
\* being processed and every scheduled timeout worker has run, the table is
\* empty.
C24_TableDrains ==
    (req.pc = "idle" /\ \A i \in ScanIds : wpc[i] # "queued")
    => DOMAIN pending = {}

\* C24 witness: two scans were put, both timeout workers have run, the
\* table is empty.
C24_Witness ==
    /\ req.pc = "idle"
    /\ Len(scans) >= 2
    /\ \A i \in 1..Len(scans) : wpc[i] = "done"
    /\ DOMAIN pending = {}

\* C25: a scan whose lookup finds nothing is first put into the table and
\* then gets one timeout worker; a scan that was not put gets none, and no
\* timeout worker fires before the Put of its scan.
C25_PutThenWorker ==
    \A i \in ScanIds :
        /\ i \notin 1..Len(scans) => wpc[i] = "none"
        /\ i \in 1..Len(scans) =>
              /\ scans[i].found # NoPhoto => wpc[i] = "none"
              /\ (req.sid = i /\ req.pc = "put") => (wpc[i] = "none" /\ ~WasPut(i))
              /\ (req.sid = i /\ req.pc = "commit" /\ scans[i].found = NoPhoto)
                    => (wpc[i] = "queued" /\ WasPut(i))
              /\ Registered(i) => wpc[i] # "none"
              /\ wpc[i] \in {"send", "done"} => (Registered(i) /\ i \in committed)

\* C25 witness: the timeout worker of a scan fired after the Put and took
\* the entry of its scan.
C25_Witness ==
    /\ Len(scans) = 1
    /\ wpc[1] = "send"
    /\ wclaimed[1] = 1

\* C26: the notification of a timeout worker describes the entry it
\* removed: scan time, in_out, verify_mode and device_serial are those of
\* the entry that was in the table at its claim.
C26_TimeoutSendsClaimed ==
    \A i \in 1..Len(scans) : \A n \in sent :
        n.by = <<"timeout", i>>
        => /\ wclaimed[i] # NoScan
           /\ n.timestamp = scans[wclaimed[i]].time
           /\ n.in_out = scans[wclaimed[i]].in_out
           /\ n.verify_mode = scans[wclaimed[i]].verify_mode
           /\ n.device_serial = scans[wclaimed[i]].device

\* the notification carries the data of the scan it was sent for
OwnData(n) ==
    /\ n.sid \in 1..Len(scans)
    /\ n.user_id = scans[n.sid].user
    /\ n.timestamp = scans[n.sid].time
    /\ n.in_out = scans[n.sid].in_out
    /\ n.verify_mode = scans[n.sid].verify_mode
    /\ n.device_serial = scans[n.sid].device

\* C27: when the scans of a user do not overlap (each is processed after
\* the timeout worker of the previous one completed), on the locked paths
\* every scan is dispatched at most once, with its own data, and exactly
\* once when everything has run.
C27_SequentialExactlyOnce ==
    /\ \A n \in sent : OwnData(n)
    /\ \A i \in 1..Len(scans) : Cardinality(SentFor(i)) <= 1
    /\ Quiescent => \A i \in 1..Len(scans) : Cardinality(SentFor(i)) = 1

\* C28: on the locked paths the number of notifications dispatched never
\* exceeds the number of scans processed, overlapping scans of one user
\* included.
C28_NoMoreThanScans ==
    Cardinality(sent) <= Len(scans)

\* C28 witness: two scans of one user overlapped, the worker of the first
\* took the entry of the second, everything has run and one notification
\* was dispatched for two scans.
C28_Witness ==
    /\ Quiescent
    /\ Len(scans) = 2
    /\ wclaimed[1] = 2
    /\ Cardinality(sent) = 1

\* C29: the trigger of a stored photo that runs between the lookup and the
\* Put of a scan of its user is not lost: it does not end having found
\* nothing.
C29_TriggerInWindowNotLost ==
    [][ \A j \in PhotoIds :
          ( /\ PhotoCheckStep(j)
            /\ req.pc = "put"
            /\ photos[j].saved /\ photos[j].valid
            /\ photos[j].user = scans[req.sid].user )
          => ~(tpc'[j] = "done" /\ tdata'[j] = NoData) ]_vars

\* C30: the photo-side claim matches on user_id alone: the trigger of a
\* photo of user u takes u's entry whenever there is one, whatever the
\* device of the photo and its distance in time from the scan.
C30_ClaimByUserOnly ==
    [][ \A j \in PhotoIds :
          (PhotoCheckStep(j) /\ photos[j].valid /\ photos[j].user \in DOMAIN pending)
          => /\ tdata'[j] = pending[photos[j].user]
             /\ tpc[j] = "sync"
                   => (tpc'[j] = "send" /\ pending' = Del(pending, photos[j].user))
             /\ tpc[j] = "inline" => tpc'[j] = "inline_send" ]_vars

\* C30 witness: a photo uploaded by another device, more than the window
\* away from the scan time, claimed the entry of the scan.
C30_Witness ==
    \E i \in 1..Len(scans), j \in 1..Len(photos) :
        /\ SyncClaimed(j, i)
        /\ photos[j].device # scans[i].device
        /\ Abs(scans[i].time - photos[j].time) > ProximityWindow


(* C31: no stored photo is attached to the notifications of two different
   scans: a photo that was used for one scan (by a photo claim or by the
   immediate lookup) is not returned again by the immediate lookup of a
   later scan of the same user on the same device. *)
C31_PhotoUsedOnce ==
    \A n1 \in sent : \A n2 \in sent :
        (/\ n1.photo_path # NoPhoto
         /\ n1.photo_path = n2.photo_path
         /\ n2.by[1] = "immediate")
        => n1.sid = n2.sid

\* the step of the task that holds the lock: the statements of its block
HolderStep(h) ==
    CASE h.kind = "put" -> ScanPut
      [] h.kind = "timeout" -> TimeoutClaim(h.id)
      [] h.kind = "trigger" -> TriggerSyncClaim(h.id)

(* C32: on the lock-protected paths the table lock is never held while the
   Notifier is called: whoever holds pending_notifications_lock is still
   inside its block (before any dispatch of its own), no task that is at its
   dispatch holds it, and the holder can always finish its block and release
   the lock, whatever the Notifier calls of other tasks do. *)
C32_LockNotHeldAtDispatch ==
    /\ \A i \in ScanIds : wpc[i] = "send" => lock # Holder("timeout", i)
    /\ \A j \in PhotoIds : tpc[j] = "send" => lock # Holder("trigger", j)
    /\ lock # NoHolder => (lock \in Holders /\ AtBlock(lock) /\ ENABLED HolderStep(lock))

\* a timeout worker is about to call the Notifier while another task is
\* inside its block under the lock
C32_Witness ==
    /\ lock # NoHolder
    /\ \E i \in ScanIds : wpc[i] = "send"

\* the step changes the presence or the contents of the entry of user x
Touched(x) ==
    \/ (x \in DOMAIN pending) # (x \in DOMAIN pending')
    \/ (x \in DOMAIN pending /\ x \in DOMAIN pending' /\ pending[x] # pending'[x])

\* the step is the Put, the photo claim or the timeout claim of user x
ActsFor(x) ==
    \/ req.pc = "put" /\ req'.pc = "commit" /\ scans[req.sid].user = x
    \/ \E i \in ScanIds : wpc[i] = "queued" /\ wpc'[i] # "queued" /\ scans[i].user = x
    \/ \E j \in PhotoIds : tpc[j] = "sync" /\ tpc'[j] # "sync" /\ photos[j].user = x

(* C33: operations for one user never touch another user's pending entry: a
   Put, a photo claim or a timeout claim for user u leaves the presence and
   the contents of every entry with a different user_id unchanged. *)
C33_OtherUsersUntouched ==
    [][\A x \in Users : Touched(x) => ActsFor(x)]_vars

\* a timeout worker removed the entry of its user while the entry of
\* another user, stored before, is still in the table
C33_Witness ==
    \E i \in ScanIds : \E x \in DOMAIN pending :
        /\ wclaimed[i] = i
        /\ x # scans[i].user
        /\ pending[x].sid < i

\* the ids of the handlers subscribed to event type e, in subscription order
Subscribed(e) ==
    IF e \in DOMAIN bus.handlers
       THEN [k \in 1..Len(bus.handlers[e]) |-> bus.handlers[e][k].id]
       ELSE <<>>

(* C34: EventBus.publish calls every handler subscribed to the event type
   exactly once, in subscription order; a handler that raises does not stop
   the handlers subscribed after it and its exception does not reach the
   publisher; publishing an event type without subscribers calls nothing. *)
C34_PublishCallsAll ==
    [][\A e \in EventTypes :
          (bus'.published = e /\ bus'.handlers = bus.handlers /\ bus' # bus)
          => (bus'.calls = Subscribed(e) /\ ~bus'.escaped)]_vars

\* an event type with two subscriptions was published; the handler
\* subscribed first raises and both were called
C34_Witness ==
    /\ bus.published \in DOMAIN bus.handlers
    /\ Len(bus.handlers[bus.published]) = 2
    /\ bus.handlers[bus.published][1].raises
    /\ bus.calls = Subscribed(bus.published)
    /\ Len(bus.calls) = 2

====
